---- MODULE Spec2Model ----
(***************************************************************************)
(* Model of notebooks/01_data_merging.ipynb: the batch pipeline that       *)
(* builds the (date x location) modelling dataset for NYC human            *)
(* trafficking risk.  Every notebook code cell is one action; the label    *)
(* loop of cell 5 is one action per appended flag.                         *)
(*                                                                         *)
(* Data frames are records [cols, rows]: cols is the set of column names,  *)
(* rows a sequence of functions from cols to cells.  A cell is <<>> for a  *)
(* missing value (NaN / NaT / None) and <<v>> for the value v.             *)
(* Timestamps are day ordinals (days since 1970-01-01); the date columns   *)
(* of the inputs carry no time of day.  A float64 coordinate is the        *)
(* record [k, s, ps]: k is the decimal text read from the CSV in units of  *)
(* 10^-6, s the sign of (double - decimal), ps the sign of                 *)
(* (fl(double * 10^5) - decimal * 10^5).                                   *)
(***************************************************************************)
EXTENDS Integers, Sequences, FiniteSets, TLC

VARIABLES pc, err, files, ht_cases, ht_crimes, passenger_volume, events,
          future_flags, loop_i, df_label, all_locations, date_loc_grid,
          feather, csv, trace

vars == <<pc, err, files, ht_cases, ht_crimes, passenger_volume, events,
          future_flags, loop_i, df_label, all_locations, date_loc_grid,
          feather, csv, trace>>

-----------------------------------------------------------------------------
(* Cells *)

NULL == <<>>

V(x) == <<x>>

IsNull(c) == c = NULL

Val(c) == c[1]

\* Series.fillna(v)
FillNa(c, v) == IF IsNull(c) THEN V(v) ELSE c

-----------------------------------------------------------------------------------------------------------------------------------------------------
(* Sequence helpers *)

\* F applied to the value of x, with x evaluated once
With(x, F(_)) == CHOOSE r \in {F(v) : v \in {x}} : TRUE

SeqMap(F(_), s) ==
    LET Map(v) == [i \in 1..Len(v) |-> F(v[i])]
    IN  With(s, Map)

SeqFilter(P(_), s) == SelectSeq(s, P)

RECURSIVE Flatten(_, _)
Flatten(v, i) == IF i > Len(v) THEN <<>> ELSE v[i] \o Flatten(v, i + 1)

SeqConcat(ss) ==
    LET Flat(v) == Flatten(v, 1)
    IN  With(ss, Flat)

Range(s) == {s[i] : i \in DOMAIN s}

\* number of rows of s satisfying P
Count(P(_), s) == Len(SelectSeq(s, P))

\* the elements of s at the indices in keep, in order
Pick(s, keep) ==
    LET Nth(k) == CHOOSE i \in keep : Cardinality({j \in keep : j < i}) = k - 1
    IN  [k \in 1..Cardinality(keep) |-> s[Nth(k)]]

\* keep the first occurrence of every key, in order
DedupBy(K(_), s) ==
    LET First(v) ==
            LET keys == [i \in DOMAIN v |-> K(v[i])]
                Firsts(ks) == {i \in DOMAIN v : \A j \in 1..(i - 1) : ks[j] # ks[i]}
                Keep(ks) == LET PickV(keep) == Pick(v, keep) IN With(Firsts(ks), PickV)
            IN  With(keys, Keep)
    IN  With(s, First)

-----------------------------------------------------------------------------
(* Data frames *)

Frame(c, r) == [cols |-> c, rows |-> r]

EmptyFrame == Frame({}, <<>>)

Has(df, c) == c \in df.cols

HasAll(df, cs) == cs \subseteq df.cols

\* df[c] = F(row)
AddCol(df, c, F(_)) ==
    LET Add(d) ==
            LET Ext(r) == [x \in d.cols \cup {c} |-> IF x = c THEN F(r) ELSE r[x]]
            IN  Frame(d.cols \cup {c}, SeqMap(Ext, d.rows))
    IN  With(df, Add)

\* df[cs]
Select(df, cs) ==
    LET Proj(r) == [x \in cs |-> r[x]]
        Sel(d) == Frame(cs, SeqMap(Proj, d.rows))
    IN  With(df, Sel)

\* df.rename(columns={old: new}); a name that is absent is ignored
Rename(df, old, new) ==
    LET Ren(d) ==
            IF old \notin d.cols THEN d
            ELSE LET nc == (d.cols \ {old}) \cup {new}
                     RenRow(r) == [x \in nc |-> IF x = new THEN r[old] ELSE r[x]]
                 IN  Frame(nc, SeqMap(RenRow, d.rows))
    IN  With(df, Ren)

\* df.drop(columns=cs, errors='ignore')
DropCols(df, cs) ==
    LET Drop(d) == Select(d, d.cols \ cs)
    IN  With(df, Drop)

\* df.dropna(subset=cs)
DropNa(df, cs) ==
    LET Full(r) == \A c \in cs : ~IsNull(r[c])
        Keep(d) == Frame(d.cols, SeqFilter(Full, d.rows))
    IN  With(df, Keep)

\* df.drop_duplicates(subset=cs), keeping first occurrences
DropDuplicates(df, cs) ==
    LET Key(r) == [x \in cs |-> r[x]]
        Dedup(d) == Frame(d.cols, DedupBy(Key, d.rows))
    IN  With(df, Dedup)

\* left.merge(right, on=keys, how='left'): every left row, in order, once per
\* matching right row (in the right frame's order), or once with missing
\* values in the right frame's columns when nothing matches.  Missing key
\* values match each other, as in pandas.
LeftMerge(left, right, keys) ==
    LET Merge(p) ==
            LET nc == p[1].cols \cup p[2].cols
                Join(l, r) == [x \in nc |-> IF x \in p[1].cols THEN l[x] ELSE r[x]]
                Blank(l) == [x \in nc |-> IF x \in p[1].cols THEN l[x] ELSE NULL]
                Match(l, r) == \A k \in keys : l[k] = r[k]
                Expand(l) ==
                    LET JoinL(r) == Join(l, r)
                        MatchL(r) == Match(l, r)
                        Hits(h) == IF h = <<>> THEN <<Blank(l)>> ELSE SeqMap(JoinL, h)
                    IN  With(SeqFilter(MatchL, p[2].rows), Hits)
            IN  Frame(nc, SeqConcat(SeqMap(Expand, p[1].rows)))
    IN  With(<<left, right>>, Merge)

\* pd.concat(frames, ignore_index=True) of frames over the same columns (an
\* empty pd.DataFrame() contributes nothing)
Concat3(a, b, c) ==
    LET Cat(p) == Frame(p[1].cols \cup p[2].cols \cup p[3].cols,
                        p[1].rows \o p[2].rows \o p[3].rows)
    IN  With(<<a, b, c>>, Cat)

\* the values of column c that are not missing
ColValues(df, c) ==
    LET Vals(d) == {Val(r[c]) : r \in {x \in Range(d.rows) : ~IsNull(x[c])}}
    IN  With(df, Vals)

SetMin(S) == CHOOSE x \in S : \A y \in S : x <= y

SetMax(S) == CHOOSE x \in S : \A y \in S : x >= y

\* Series.min() / Series.max(): missing values are skipped; missing when
\* nothing is left
ColMin(df, c) ==
    LET Min(S) == IF S = {} THEN NULL ELSE V(SetMin(S))
    IN  With(ColValues(df, c), Min)

ColMax(df, c) ==
    LET Max(S) == IF S = {} THEN NULL ELSE V(SetMax(S))
    IN  With(ColValues(df, c), Max)

-----
(* float64 coordinates, round(), Series.round() and float formatting *)

\* decimals kept by round(lat, 5) and Series.round(5)
Decimals == 5

RECURSIVE Pow10(_)
Pow10(n) == IF n = 0 THEN 1 ELSE 10 * Pow10(n - 1)

Float(k, s, ps) == [k |-> k, s |-> s, ps |-> ps]

\* the double nearest to a decimal with Decimals places: m in units of
\* 10^-Decimals
Canonical(m) == Float(10 * m, 0, 0)

\* v to the nearest multiple of unit (returned as the multiple's index),
\* ties to the even index
RoundHalfEven(v, unit) ==
    LET q == v \div unit
        r == v % unit
    IN  IF 2 * r < unit THEN q
        ELSE IF 2 * r > unit THEN q + 1
        ELSE IF q % 2 = 0 THEN q ELSE q + 1

\* Python's round(x, 5) on a float: correctly rounded on the double's exact
\* value, so a decimal tie is decided by the side the double lies on.
\* The argument and the result are cells; nan stays nan.
PyRound(c) ==
    IF IsNull(c) THEN NULL
    ELSE V(Canonical(RoundHalfEven(10 * Val(c).k + Val(c).s, 100)))

\* Series.round(5), numpy's around: rint(x * 10^5) / 10^5.  The product is
\* rounded to a double first, which can land exactly on the tie; rint then
\* rounds half to even.
NpRound(c) ==
    IF IsNull(c) THEN NULL
    ELSE V(Canonical(RoundHalfEven(10 * Val(c).k + Val(c).ps, 100)))

DigitChar == <<"0", "1", "2", "3", "4", "5", "6", "7", "8", "9">>

RECURSIVE Digits(_)
Digits(n) ==
    IF n < 10 THEN <<DigitChar[n + 1]>>
    ELSE Digits(n \div 10) \o <<DigitChar[(n % 10) + 1]>>

RECURSIVE Pad(_, _)
Pad(n, w) ==
    IF w = 0 THEN <<>> ELSE Pad(n \div 10, w - 1) \o <<DigitChar[(n % 10) + 1]>>

\* the fraction digits of repr(float): trailing zeros dropped, one digit kept
RECURSIVE FracDigits(_, _)
FracDigits(f, w) ==
    IF w = 1 THEN Pad(f, 1)
    ELSE IF f % 10 = 0 THEN FracDigits(f \div 10, w - 1)
    ELSE Pad(f, w)

\* f"{x}" of a float already rounded to Decimals places, as its characters
FormatFloat(c) ==
    IF IsNull(c) THEN <<"n", "a", "n">>
    ELSE LET m == Val(c).k \div 10
             a == IF m < 0 THEN 0 - m ELSE m
         IN  (IF m < 0 THEN <<"-">> ELSE <<>>)
             \o Digits(a \div Pow10(Decimals)) \o <<".">>
             \o FracDigits(a % Pow10(Decimals), Decimals)

\* def make_location_id(lat, lon): return f"{round(lat, 5)}_{round(lon, 5)}"
make_location_id(lat, lon) ==
    FormatFloat(PyRound(lat)) \o <<"_">> \o FormatFloat(PyRound(lon))

-----------------------------------------------------------------------------
(* Strings as character sequences: the order groupby sorts its keys by *)

CharRank(ch) ==
    CASE ch = "-" -> 45
      [] ch = "." -> 46
      [] ch = "_" -> 95
      [] ch = "a" -> 97
      [] ch = "n" -> 110
      [] OTHER -> 47 + (CHOOSE i \in DOMAIN DigitChar : DigitChar[i] = ch)

RECURSIVE StrLess(_, _)
StrLess(a, b) ==
    IF b = <<>> THEN FALSE
    ELSE IF a = <<>> THEN TRUE
    ELSE IF Head(a) = Head(b) THEN StrLess(Tail(a), Tail(b))
    ELSE CharRank(Head(a)) < CharRank(Head(b))

RECURSIVE SortedStrs(_)
SortedStrs(S) ==
    LET Sort(T) ==
            IF T = {} THEN <<>>
            ELSE LET Rest(lo) == <<lo>> \o SortedStrs(T \ {lo})
                 IN  With(CHOOSE x \in T : \A y \in T \ {x} : StrLess(x, y), Rest)
    IN  With(S, Sort)

-----------------------------------------------------------------------------
(* Calendar *)

\* Timestamp.dayofweek of the day with ordinal d: Monday = 0 (1970-01-01 was
\* a Thursday)
DayOfWeek(d) == (d + 3) % 7

\* proleptic Gregorian year, month and day of the day with ordinal d
Civil(d) ==
    LET z == d + 719468
        era == z \div 146097
        doe == z - era * 146097
        yoe == (doe - doe \div 1460 + doe \div 36524 - doe \div 146096) \div 365
        doy == doe - (365 * yoe + yoe \div 4 - yoe \div 100)
        mp == (5 * doy + 2) \div 153
        m == IF mp < 10 THEN mp + 3 ELSE mp - 9
    IN  [year |-> yoe + era * 400 + (IF m <= 2 THEN 1 ELSE 0),
         month |-> m,
         day |-> doy - (153 * mp + 2) \div 5 + 1]

\* date.values.astype('datetime64[M]'): the first day of the date's month
MonthStart(d) == d - (Civil(d).day - 1)

\* def get_season(month)
get_season(month) ==
    IF month \in {12, 1, 2} THEN "Winter"
    ELSE IF month \in {3, 4, 5} THEN "Spring"
    ELSE IF month \in {6, 7, 8} THEN "Summer"
    ELSE "Fall"

\* holidays.US(years=...): the federal holidays of January and February 2021
\* (New Year's Day, Martin Luther King Jr. Day, Washington's Birthday)
us_holidays == {18628, 18645, 18673}

\* def extract_borough_from_address(address); an address is the set of the
\* borough names its upper-cased text contains
extract_borough_from_address(address) ==
    IF IsNull(address) THEN NULL
    ELSE IF "BRONX" \in Val(address) THEN V("BRONX")
    ELSE IF "BROOKLYN" \in Val(address) THEN V("BROOKLYN")
    ELSE IF "QUEENS" \in Val(address) THEN V("QUEENS")
    ELSE IF "MANHATTAN" \in Val(address) \/ "NEW YORK" \in Val(address)
         THEN V("MANHATTAN")
    ELSE IF "STATEN ISLAND" \in Val(address) THEN V("STATEN ISLAND")
    ELSE NULL

\* texts of dates and times: [ok, v]; a well-formed text denotes the day
\* ordinal (or the hour) v, an ill-formed one nothing
Text(v) == [ok |-> TRUE, v |-> v]

Garbage == [ok |-> FALSE, v |-> 0]

Parses(c) == IsNull(c) \/ Val(c).ok

\* pd.to_datetime(series) on one cell that parses: empty stays missing
to_datetime(c) == IF IsNull(c) THEN NULL ELSE V(Val(c).v)

\* pd.to_datetime(series, format='%H:%M:%S', errors='coerce').dt.hour
coerce_hour(c) == IF IsNull(c) \/ ~Val(c).ok THEN NULL ELSE V(Val(c).v)

\* lambda x: 1 if x in range(0, 6) else 0
night_flag(c) == IF ~IsNull(c) /\ Val(c) \in 0..5 THEN 1 ELSE 0

\* min(a, b, c) / max(a, b, c) of Python over Timestamps: the running value
\* is replaced only when the comparison is true, and every comparison with
\* NaT is false
PyMin3(a, b, c) ==
    LET m1 == IF ~IsNull(a) /\ ~IsNull(b) /\ Val(b) < Val(a) THEN b ELSE a
    IN  IF ~IsNull(m1) /\ ~IsNull(c) /\ Val(c) < Val(m1) THEN c ELSE m1

PyMax3(a, b, c) ==
    LET m1 == IF ~IsNull(a) /\ ~IsNull(b) /\ Val(b) > Val(a) THEN b ELSE a
    IN  IF ~IsNull(m1) /\ ~IsNull(c) /\ Val(c) > Val(m1) THEN c ELSE m1

\* pd.date_range(start, end): every day from start to end
RECURSIVE date_range(_, _)
date_range(start, end) ==
    IF start > end THEN <<>> ELSE <<start>> \o date_range(start + 1, end)

-----------------------------------------------------------------------------
(* The notebook's cells, in order *)

Steps ==
    <<"load", "parse", "time_features", "location_ids", "label", "grid",
      "events_7_1", "crime_count_7_2", "night_ratio_7_3", "passenger_7_4",
      "borough_7_5", "temporal_7_6", "label_7_7", "cleanup_7_8",
      "save_feather", "save_csv">>

StepIndex(step) == CHOOSE i \in DOMAIN Steps : Steps[i] = step

\* a hand-over that passes over the cell after the one that ended
SkippingNextStep(step) ==
    IF StepIndex(step) + 2 > Len(Steps) THEN "done" ELSE Steps[StepIndex(step) + 2]

NextStep(step) ==
    IF StepIndex(step) = Len(Steps) THEN "done" ELSE Steps[StepIndex(step) + 1]

\* a cell that ran to its end hands over to the next cell; a cell that
\* raised ends the run (the exception reaches the notebook user)
Advance(ok) ==
    IF ok
    THEN /\ pc' = NextStep(pc)
         /\ trace' = Append(trace, pc)
         /\ err' = err
    ELSE /\ pc' = "error"
         /\ trace' = trace
         /\ err' = pc

AllParse(df, c) == \A i \in DOMAIN df.rows : Parses(df.rows[i][c])

\* df[c] = pd.to_datetime(df[c]); df = df.rename(columns={c: new})
ParseDate(df, c, new) ==
    LET Conv(r) == to_datetime(r[c])
    IN  Rename(AddCol(df, c, Conv), c, new)

\* ---- 1. Data Loading
Load ==
    /\ pc = "load"
    /\ ht_cases' = files.ht_cases
    /\ ht_crimes' = files.ht_crimes
    /\ passenger_volume' = files.passenger_volume
    /\ events' = files.events
    /\ Advance(TRUE)
    /\ UNCHANGED <<files, future_flags, loop_i, df_label, all_locations,
                   date_loc_grid, feather, csv>>

\* a parse cell that coerces the passenger volume's Activity Period instead
\* of raising on it
ParseOkCoercingVolume ==
    /\ Has(ht_cases, "Incident Reporting Date")
    /\ AllParse(ht_cases, "Incident Reporting Date")
    /\ Has(ht_crimes, "CMPLNT_FR_DT")
    /\ AllParse(ht_crimes, "CMPLNT_FR_DT")
    /\ Has(passenger_volume, "Activity Period")
    /\ Has(events, "start_date")
    /\ AllParse(events, "start_date")
    /\ Has(events, "end_date")
    /\ AllParse(events, "end_date")

\* ---- 2. Parsing and Cleaning Dates/Times
ParseOk ==
    /\ Has(ht_cases, "Incident Reporting Date")
    /\ AllParse(ht_cases, "Incident Reporting Date")
    /\ Has(ht_crimes, "CMPLNT_FR_DT")
    /\ AllParse(ht_crimes, "CMPLNT_FR_DT")
    /\ Has(passenger_volume, "Activity Period")
    /\ AllParse(passenger_volume, "Activity Period")
    /\ Has(events, "start_date")
    /\ AllParse(events, "start_date")
    /\ Has(events, "end_date")
    /\ AllParse(events, "end_date")

ParsedEvents ==
    LET Conv(r) == to_datetime(r["end_date"])
    IN  Rename(AddCol(ParseDate(events, "start_date", "start_date"), "end_date", Conv),
               "start_date", "date")

Parse ==
    /\ pc = "parse"
    /\ ht_cases' = IF ParseOk THEN ParseDate(ht_cases, "Incident Reporting Date", "date")
                   ELSE ht_cases
    /\ ht_crimes' = IF ParseOk THEN ParseDate(ht_crimes, "CMPLNT_FR_DT", "date")
                    ELSE ht_crimes
    /\ passenger_volume' = IF ParseOk
                           THEN ParseDate(passenger_volume, "Activity Period", "month")
                           ELSE passenger_volume
    /\ events' = IF ParseOk THEN ParsedEvents ELSE events
    /\ Advance(ParseOk)
    /\ UNCHANGED <<files, future_flags, loop_i, df_label, all_locations,
                   date_loc_grid, feather, csv>>

\* ---- 3. Feature Engineering: Time Columns
TimeOk ==
    /\ Has(ht_crimes, "CMPLNT_FR_TM")
    /\ Has(events, "start_time")
    /\ Has(events, "end_time")

CrimesWithHours ==
    LET Hour(r) == coerce_hour(r["CMPLNT_FR_TM"])
        Night(r) == V(night_flag(r["crime_hour"]))
    IN  AddCol(AddCol(ht_crimes, "crime_hour", Hour), "is_night_crime", Night)

EventsWithHours ==
    LET StartHour(r) == coerce_hour(r["start_time"])
        EndHour(r) == coerce_hour(r["end_time"])
        Night(r) == V(night_flag(r["event_start_hour"]))
    IN  AddCol(AddCol(AddCol(events, "event_start_hour", StartHour),
                      "event_end_hour", EndHour),
               "is_night_event", Night)

TimeFeatures ==
    /\ pc = "time_features"
    /\ ht_crimes' = IF TimeOk THEN CrimesWithHours ELSE ht_crimes
    /\ events' = IF TimeOk THEN EventsWithHours ELSE events
    /\ Advance(TimeOk)
    /\ UNCHANGED <<files, ht_cases, passenger_volume, future_flags, loop_i,
                   df_label, all_locations, date_loc_grid, feather, csv>>

\* ---- 4. Create Location IDs
LocationOk ==
    /\ HasAll(ht_cases, {"Latitude", "Longitude"})
    /\ HasAll(ht_crimes, {"Latitude", "Longitude"})

\* df['location_id'] = df.apply(lambda r: make_location_id(r['Latitude'], r['Longitude']), axis=1)
WithLocationId(df) ==
    LET Id(r) == V(make_location_id(r["Latitude"], r["Longitude"]))
    IN  AddCol(df, "location_id", Id)

LocationIds ==
    /\ pc = "location_ids"
    /\ ht_cases' = IF LocationOk THEN WithLocationId(ht_cases) ELSE ht_cases
    /\ ht_crimes' = IF LocationOk THEN WithLocationId(ht_crimes) ELSE ht_crimes
    /\ Advance(LocationOk)
    /\ UNCHANGED <<files, passenger_volume, events, future_flags, loop_i,
                   df_label, all_locations, date_loc_grid, feather, csv>>

\* ---- 5. Label Creation
\* for loc, group in ht_cases.groupby('location_id'): for report_date in group['date']:
\* the rows of ht_cases in the order the two loops visit them (groups by
\* sorted key, rows of a group in frame order)
LabelOrder ==
    LET ids == SortedStrs({Val(r["location_id"]) : r \in Range(ht_cases.rows)})
        Group(id) ==
            LET InGroup(r) == Val(r["location_id"]) = id
            IN  SeqFilter(InGroup, ht_cases.rows)
    IN  SeqConcat(SeqMap(Group, ids))

\* report_date + pd.Timedelta(days=1); NaT stays NaT
PlusOneDay(c) == IF IsNull(c) THEN NULL ELSE V(Val(c) + 1)

\* the tuple one pass of the inner loop appends
FutureFlag(r) ==
    [location_id |-> r["location_id"], date |-> PlusOneDay(r["date"])]

LabelAppend ==
    /\ pc = "label"
    /\ loop_i <= Len(LabelOrder)
    /\ future_flags' = Append(future_flags, FutureFlag(LabelOrder[loop_i]))
    /\ loop_i' = loop_i + 1
    /\ UNCHANGED <<pc, err, trace, files, ht_cases, ht_crimes, passenger_volume,
                   events, df_label, all_locations, date_loc_grid, feather, csv>>

\* risk_df = pd.DataFrame(future_flags, columns=[...]); risk_df['future_ht_risk_1d'] = 1
risk_df ==
    LET One(r) == V(1)
    IN  AddCol(Frame({"location_id", "date"}, future_flags), "future_ht_risk_1d", One)

\* fillna(0).astype(int) of one column
FillZero(df, c) ==
    LET Fill(r) == FillNa(r[c], 0)
    IN  AddCol(df, c, Fill)

LabelledCases ==
    FillZero(LeftMerge(Select(ht_cases, {"date", "Latitude", "Longitude", "location_id"}),
                       risk_df, {"location_id", "date"}),
             "future_ht_risk_1d")

LabelFinish ==
    /\ pc = "label"
    /\ loop_i > Len(LabelOrder)
    /\ df_label' = LabelledCases
    /\ Advance(TRUE)
    /\ UNCHANGED <<files, ht_cases, ht_crimes, passenger_volume, events,
                   future_flags, loop_i, all_locations, date_loc_grid, feather, csv>>

\* ---- 6. Build Spatiotemporal Grid
LatLon(df) == DropNa(Select(df, {"Latitude", "Longitude"}), {"Latitude", "Longitude"})

\* events[['Latitude', 'Longitude']].dropna() if 'Latitude' in events.columns else pd.DataFrame()
latlon_events == IF Has(events, "Latitude") THEN LatLon(events) ELSE EmptyFrame

\* all_locations['Latitude'] = all_locations['Latitude'].round(5), likewise Longitude
RoundedCoords(df) ==
    LET Lat(r) == NpRound(r["Latitude"])
        Lon(r) == NpRound(r["Longitude"])
    IN  AddCol(AddCol(df, "Latitude", Lat), "Longitude", Lon)

AllLocations ==
    LET raw == Concat3(LatLon(ht_cases), LatLon(ht_crimes), latlon_events)
        uniq == DropDuplicates(raw, raw.cols)
    IN  DropDuplicates(WithLocationId(RoundedCoords(uniq)), {"location_id"})

min_date == PyMin3(ColMin(ht_cases, "date"), ColMin(ht_crimes, "date"), ColMin(events, "date"))

max_date == PyMax3(ColMax(ht_cases, "date"), ColMax(ht_crimes, "date"), ColMax(events, "date"))

\* events[['Latitude', 'Longitude']] needs both columns; pd.date_range raises
\* on NaT
GridOk ==
    /\ Has(events, "Latitude") => Has(events, "Longitude")
    /\ ~IsNull(min_date)
    /\ ~IsNull(max_date)

all_dates == date_range(Val(min_date), Val(max_date))

\* pd.DataFrame(list(product(all_dates, all_locations['location_id'])), columns=['date', 'location_id'])
Product(dates, locs) ==
    LET Row(d) ==
            LET Cell(l) == [date |-> V(d), location_id |-> l["location_id"]]
            IN  SeqMap(Cell, locs.rows)
    IN  Frame({"date", "location_id"}, SeqConcat(SeqMap(Row, dates)))

BuildGrid == LeftMerge(Product(all_dates, AllLocations), AllLocations, {"location_id"})

Grid ==
    /\ pc = "grid"
    /\ all_locations' = IF GridOk THEN AllLocations ELSE all_locations
    /\ date_loc_grid' = IF GridOk THEN BuildGrid ELSE date_loc_grid
    /\ Advance(GridOk)
    /\ UNCHANGED <<files, ht_cases, ht_crimes, passenger_volume, events,
                   future_flags, loop_i, df_label, feather, csv>>

\* ---- 7.1 Merge Event Counts
\* events.groupby('date').size().reset_index(name='daily_event_count'):
\* one row per start date, missing dates left out
RECURSIVE GroupSizes(_, _)
GroupSizes(df, keys) ==
    IF keys = {} THEN <<>>
    ELSE LET d == SetMin(keys)
             OnDay(r) == r["date"] = V(d)
         IN  <<[date |-> V(d), daily_event_count |-> V(Count(OnDay, df.rows))]>>
             \o GroupSizes(df, keys \ {d})

daily_event_counts ==
    Frame({"date", "daily_event_count"}, GroupSizes(events, ColValues(events, "date")))

GridWithEvents ==
    FillZero(LeftMerge(date_loc_grid, daily_event_counts, {"date"}), "daily_event_count")

Events71 ==
    /\ pc = "events_7_1"
    /\ date_loc_grid' = GridWithEvents
    /\ Advance(TRUE)
    /\ UNCHANGED <<files, ht_cases, ht_crimes, passenger_volume, events,
                   future_flags, loop_i, df_label, all_locations, feather, csv>>

\* ---- 7.2 Past 7-Day Crime Count (the loop that fills it is commented out)
\* np.radians(x)
Radians(c) == IF IsNull(c) THEN NULL ELSE V(<<"radians", Val(c)>>)

WithRadians(df) ==
    LET Lat(r) == Radians(r["Latitude"])
        Lon(r) == Radians(r["Longitude"])
    IN  AddCol(AddCol(df, "lat_rad", Lat), "lon_rad", Lon)

\* ht_crimes.dropna(subset=['Latitude', 'Longitude', 'date'])
LocatedCrimes == DropNa(ht_crimes, {"Latitude", "Longitude", "date"})

\* BallTree(crime_coords_rad, metric='haversine') raises on an empty array
CrimeCountOk == LocatedCrimes.rows # <<>>

CrimeCount72 ==
    /\ pc = "crime_count_7_2"
    /\ ht_crimes' = WithRadians(LocatedCrimes)
    /\ date_loc_grid' = WithRadians(date_loc_grid)
    /\ Advance(CrimeCountOk)
    /\ UNCHANGED <<files, ht_cases, passenger_volume, events, future_flags,
                   loop_i, df_label, all_locations, feather, csv>>

\* ---- 7.3 Night Crime Ratio (every line of the cell is commented out)
NightRatio73 ==
    /\ pc = "night_ratio_7_3"
    /\ Advance(TRUE)
    /\ UNCHANGED <<files, ht_cases, ht_crimes, passenger_volume, events,
                   future_flags, loop_i, df_label, all_locations, date_loc_grid,
                   feather, csv>>

\* ---- 7.4 Merge Monthly Passenger Volume (scaled)
RenamedVolume ==
    IF ~Has(passenger_volume, "monthly_passenger_volume")
    THEN Rename(passenger_volume, "Revenue Passenger Volume", "monthly_passenger_volume")
    ELSE passenger_volume

PassengerOk == HasAll(RenamedVolume, {"month", "monthly_passenger_volume"})

\* MinMaxScaler().fit_transform(column.fillna(0)): (x - min) / (max - min) as
\* the fraction [num, den]; a constant column scales to 0
MinMaxScaled(df, c, out) ==
    LET Fit(d) ==
            LET Scaled(b) ==
                    LET Scale(r) == V([num |-> Val(FillNa(r[c], 0)) - b[1],
                                       den |-> IF b[2] = b[1] THEN 1 ELSE b[2] - b[1]])
                    IN  AddCol(d, out, Scale)
            IN  With(<<SetMin(ColValues(FillZero(d, c), c)),
                       SetMax(ColValues(FillZero(d, c), c))>>, Scaled)
    IN  With(df, Fit)

GridWithVolume ==
    LET Month(r) == V(MonthStart(Val(r["date"])))
    IN  MinMaxScaled(LeftMerge(AddCol(date_loc_grid, "month", Month),
                               Select(RenamedVolume, {"month", "monthly_passenger_volume"}),
                               {"month"}),
                     "monthly_passenger_volume", "monthly_passenger_volume_scaled")

Passenger74 ==
    /\ pc = "passenger_7_4"
    /\ passenger_volume' = RenamedVolume
    /\ date_loc_grid' = IF PassengerOk THEN GridWithVolume ELSE date_loc_grid
    /\ Advance(PassengerOk)
    /\ UNCHANGED <<files, ht_cases, ht_crimes, events, future_flags, loop_i,
                   df_label, all_locations, feather, csv>>

\* ---- 7.5 Merge Boroughs
BoroughOk ==
    /\ HasAll(ht_crimes, {"location_id", "BORO_NM"})
    /\ Has(ht_cases, "Address/Location")

\* ht_crimes[['location_id', 'BORO_NM']].drop_duplicates()
borough_lookup ==
    DropDuplicates(Select(ht_crimes, {"location_id", "BORO_NM"}), {"location_id", "BORO_NM"})

\* ht_cases['borough_from_address'] = ht_cases['Address/Location'].apply(extract_borough_from_address)
CasesWithBorough ==
    LET FromAddress(r) == extract_borough_from_address(r["Address/Location"])
    IN  AddCol(ht_cases, "borough_from_address", FromAddress)

\* ht_cases[['location_id', 'borough_from_address']].dropna().drop_duplicates()
borough_lookup_tahub ==
    DropDuplicates(DropNa(Select(CasesWithBorough, {"location_id", "borough_from_address"}),
                          {"location_id", "borough_from_address"}),
                   {"location_id", "borough_from_address"})

\* the borough fill without its last default
BoroughWithoutUnknown(r) ==
    IF ~IsNull(r["borough"]) THEN r["borough"] ELSE r["borough_from_address"]

\* borough.fillna(borough_from_address), then borough.fillna("Unknown")
FilledBorough(r) ==
    IF ~IsNull(r["borough"]) THEN r["borough"]
    ELSE FillNa(r["borough_from_address"], "Unknown")

GridWithBorough ==
    LET crime == Rename(LeftMerge(date_loc_grid, borough_lookup, {"location_id"}),
                        "BORO_NM", "borough")
        both == LeftMerge(crime, borough_lookup_tahub, {"location_id"})
    IN  DropCols(AddCol(both, "borough", FilledBorough), {"borough_from_address"})

Borough75 ==
    /\ pc = "borough_7_5"
    /\ ht_cases' = IF BoroughOk THEN CasesWithBorough ELSE ht_cases
    /\ date_loc_grid' = IF BoroughOk THEN GridWithBorough ELSE date_loc_grid
    /\ Advance(BoroughOk)
    /\ UNCHANGED <<files, ht_crimes, passenger_volume, events, future_flags,
                   loop_i, df_label, all_locations, feather, csv>>

\* ---- 7.6 Add Temporal Features
\* a weekend flag that takes day_of_week to count from Sunday = 0
WeekendFlagFromSunday(dow) == IF dow \in {6, 0} THEN 1 ELSE 0

\* date_loc_grid['day_of_week'].isin([5, 6]).astype(int)
WeekendFlag(dow) == IF dow \in {5, 6} THEN 1 ELSE 0

GridWithTemporal ==
    LET Dow(r) == V(DayOfWeek(Val(r["date"])))
        Weekend(r) == V(WeekendFlag(Val(r["day_of_week"])))
        MonthNum(r) == V(Civil(Val(r["date"])).month)
        Season(r) == V(get_season(Val(r["month_num"])))
        Holiday(r) == V(IF Val(r["date"]) \in us_holidays THEN 1 ELSE 0)
    IN  AddCol(AddCol(AddCol(AddCol(AddCol(date_loc_grid, "day_of_week", Dow),
                                    "is_weekend", Weekend),
                             "month_num", MonthNum),
                      "season", Season),
               "is_holiday", Holiday)

Temporal76 ==
    /\ pc = "temporal_7_6"
    /\ date_loc_grid' = GridWithTemporal
    /\ Advance(TRUE)
    /\ UNCHANGED <<files, ht_cases, ht_crimes, passenger_volume, events,
                   future_flags, loop_i, df_label, all_locations, feather, csv>>

\* ---- 7.7 Merge Supervised Label
\* df_label[['date', 'location_id', 'future_ht_risk_1d']].drop_duplicates()
label_df ==
    DropDuplicates(Select(df_label, {"date", "location_id", "future_ht_risk_1d"}),
                   {"date", "location_id", "future_ht_risk_1d"})

GridWithLabel ==
    FillZero(LeftMerge(date_loc_grid, label_df, {"date", "location_id"}),
             "future_ht_risk_1d")

Label77 ==
    /\ pc = "label_7_7"
    /\ date_loc_grid' = GridWithLabel
    /\ Advance(TRUE)
    /\ UNCHANGED <<files, ht_cases, ht_crimes, passenger_volume, events,
                   future_flags, loop_i, df_label, all_locations, feather, csv>>

\* ---- 7.8 Final Clean-up
DroppedColumns ==
    {"monthly_passenger_volume", "monthly_passenger_volume_x",
     "monthly_passenger_volume_y", "month_num", "lat_rad", "lon_rad"}

CleanGrid == DropCols(date_loc_grid, DroppedColumns)

Cleanup78 ==
    /\ pc = "cleanup_7_8"
    /\ date_loc_grid' = CleanGrid
    /\ Advance(TRUE)
    /\ UNCHANGED <<files, ht_cases, ht_crimes, passenger_volume, events,
                   future_flags, loop_i, df_label, all_locations, feather, csv>>

\* ---- 8. Save Final Dataset: to_feather, then to_csv; a write the output
\* directory refuses raises
\* a save cell whose to_feather line is missing: nothing is written and the
\* cell goes on to the CSV
SaveWithoutFeather ==
    /\ pc = "save_feather"
    /\ feather' = feather
    /\ Advance(TRUE)
    /\ UNCHANGED <<files, ht_cases, ht_crimes, passenger_volume, events,
                   future_flags, loop_i, df_label, all_locations, date_loc_grid,
                   csv>>

SaveFeather ==
    /\ pc = "save_feather"
    /\ feather' = IF files.feather_writable THEN V(date_loc_grid) ELSE feather
    /\ Advance(files.feather_writable)
    /\ UNCHANGED <<files, ht_cases, ht_crimes, passenger_volume, events,
                   future_flags, loop_i, df_label, all_locations, date_loc_grid,
                   csv>>

SaveCsv ==
    /\ pc = "save_csv"
    /\ csv' = IF files.csv_writable THEN V(date_loc_grid) ELSE csv
    /\ Advance(files.csv_writable)
    /\ UNCHANGED <<files, ht_cases, ht_crimes, passenger_volume, events,
                   future_flags, loop_i, df_label, all_locations, date_loc_grid,
                   feather>>

-----------------------------------------------------------------------------
(* Input files *)

\* bounds of the enumerated inputs
MaxCases == 2

MaxCrimes == 2

MaxEvents == 2

MaxVolumes == 2

MaxDefects == 2

\* the first day of the modelled window: 2021-01-29
FirstDay == 18656

\* coordinates as read from the CSV text, with the signs IEEE-754 double
\* arithmetic gives them
Lat015 == V(Float(40783015, 0 - 1, 0))

Lat020 == V(Float(40783020, 1, 0))

Lat024 == V(Float(40783024, 0 - 1, 0 - 1))

Lat500 == V(Float(40500000, 0, 0))

Lon250 == V(Float(0 - 73966250, 0 - 1, 0))

Lon245 == V(Float(0 - 73966245, 0 - 1, 0))

Lon254 == V(Float(0 - 73966254, 0 - 1, 0 - 1))

RECURSIVE SetToSeq(_)
SetToSeq(S) ==
    IF S = {} THEN <<>>
    ELSE LET x == CHOOSE y \in S : TRUE IN <<x>> \o SetToSeq(S \ {x})

\* the frames of lo..hi rows drawn from the set rowset (rows in one fixed
\* order: no step depends on the order of an input's rows)
FramesOf(cols, rowset, lo, hi) ==
    LET u == SetToSeq(rowset)
        Picks(n) == {p \in [1..n -> DOMAIN u] : \A i \in 1..(n - 1) : p[i] <= p[i + 1]}
    IN  UNION {{Frame(cols, [i \in 1..n |-> u[p[i]]]) : p \in Picks(n)} : n \in lo..hi}

CaseCols == {"Incident Reporting Date", "Latitude", "Longitude", "Address/Location"}

CaseRow(d, lat, lon, addr) ==
    [c \in CaseCols |->
        CASE c = "Incident Reporting Date" -> d
          [] c = "Latitude" -> lat
          [] c = "Longitude" -> lon
          [] OTHER -> addr]

CrimeCols == {"CMPLNT_FR_DT", "CMPLNT_FR_TM", "Latitude", "Longitude", "BORO_NM"}

CrimeRow(d, t, lat, lon, boro) ==
    [c \in CrimeCols |->
        CASE c = "CMPLNT_FR_DT" -> d
          [] c = "CMPLNT_FR_TM" -> t
          [] c = "Latitude" -> lat
          [] c = "Longitude" -> lon
          [] OTHER -> boro]

EventCols == {"start_date", "end_date", "start_time", "end_time"}

EventRow(cols, sd, ed, lat, lon) ==
    [c \in cols |->
        CASE c = "start_date" -> sd
          [] c = "end_date" -> ed
          [] c = "start_time" -> V(Text(10))
          [] c = "end_time" -> V(Text(12))
          [] c = "Latitude" -> lat
          [] OTHER -> lon]

VolumeRow(name, m, v) ==
    [c \in {"Activity Period", name} |-> IF c = "Activity Period" THEN m ELSE v]

Day(n) == V(Text(FirstDay + n))

BaseCases ==
    Frame(CaseCols, <<CaseRow(Day(1), Lat020, Lon250, V({"QUEENS"}))>>)

BaseCrimes ==
    Frame(CrimeCols, <<CrimeRow(Day(0), V(Text(3)), Lat020, Lon250, V("QUEENS"))>>)

BaseEvents == Frame(EventCols, <<EventRow(EventCols, Day(6), Day(6), NULL, NULL)>>)

BaseVolume ==
    Frame({"Activity Period", "Revenue Passenger Volume"},
          <<VolumeRow("Revenue Passenger Volume", V(Text(MonthStart(FirstDay))), V(10))>>)

Files(cases, crimes, volume, evts, fw, cw) ==
    [ht_cases |-> cases, ht_crimes |-> crimes, passenger_volume |-> volume,
     events |-> evts, feather_writable |-> fw, csv_writable |-> cw]

BaseFiles == Files(BaseCases, BaseCrimes, BaseVolume, BaseEvents, TRUE, TRUE)

\* HT cases on varying days at two locations
LabelInputs ==
    {Files(c, BaseCrimes, BaseVolume, BaseEvents, TRUE, TRUE) :
        c \in FramesOf(CaseCols,
                       {CaseRow(d, lat, Lon250, NULL) :
                            d \in {Day(1), Day(2), Day(3), NULL}, lat \in {Lat020, Lat500}},
                       1, MaxCases)}

\* crimes and cases that name boroughs, or do not, at two locations
BoroughInputs ==
    {Files(c, k, BaseVolume, Frame(EventCols, <<>>), TRUE, TRUE) :
        c \in FramesOf(CaseCols,
                       {CaseRow(Day(0), lat, Lon250, a) :
                            lat \in {Lat020, Lat500},
                            a \in {NULL, V({"QUEENS"}), V({"BRONX", "NEW YORK"})}},
                       1, MaxCases),
        k \in FramesOf(CrimeCols,
                       {CrimeRow(Day(0), V(Text(3)), lat, Lon250, b) :
                            lat \in {Lat020, Lat500},
                            b \in {NULL, V("BRONX"), V("QUEENS")}}
                       \cup {CrimeRow(NULL, V(Text(3)), lat, Lon250, V("BRONX")) :
                                lat \in {Lat020, Lat500}},
                       1, MaxCrimes)}

\* events of one or several days, with and without coordinates
EventInputs ==
    {Files(BaseCases, BaseCrimes, BaseVolume, e, TRUE, TRUE) :
        e \in FramesOf(EventCols,
                       {EventRow(EventCols, Day(0), Day(0), NULL, NULL),
                        EventRow(EventCols, Day(0), Day(2), NULL, NULL),
                        EventRow(EventCols, Day(1), Day(1), NULL, NULL),
                        EventRow(EventCols, Day(2), Day(2), NULL, NULL),
                        EventRow(EventCols, NULL, NULL, NULL, NULL)},
                       0, MaxEvents)
              \cup FramesOf(EventCols \cup {"Latitude", "Longitude"},
                            {EventRow(EventCols \cup {"Latitude", "Longitude"},
                                      Day(1), Day(3), lat, lon) :
                                 lat \in {Lat500, NULL}, lon \in {Lon245, NULL}},
                            0, MaxEvents)
              \cup FramesOf(EventCols \cup {"Latitude"},
                            {EventRow(EventCols \cup {"Latitude"}, Day(1), Day(1), Lat500, NULL)},
                            1, 1)}

\* monthly passenger volumes: months present, repeated or absent
VolumeInputs ==
    {Files(BaseCases, BaseCrimes, v, BaseEvents, TRUE, TRUE) :
        v \in UNION {FramesOf({"Activity Period", name},
                              {VolumeRow(name, m, x) :
                                   m \in {V(Text(MonthStart(FirstDay))),
                                          V(Text(MonthStart(FirstDay + 6))), NULL},
                                   x \in {NULL, V(10), V(30)}},
                              0, MaxVolumes) :
                     name \in {"Revenue Passenger Volume", "monthly_passenger_volume"}}}

\* coordinates on and off the rounding ties, and missing
CoordInputs ==
    {Files(c, BaseCrimes, BaseVolume, BaseEvents, TRUE, TRUE) :
        c \in FramesOf(CaseCols,
                       {CaseRow(Day(1), lat, lon, NULL) :
                            lat \in {Lat015, Lat020, Lat024, NULL},
                            lon \in {Lon250, Lon245, Lon254}},
                       1, MaxCases)}

\* defects of the input files: a column that is absent, a date or time text
\* that does not parse
Defects ==
    {[kind |-> "missing", frame |-> "ht_cases", col |-> c] : c \in CaseCols}
    \cup {[kind |-> "missing", frame |-> "ht_crimes", col |-> c] : c \in CrimeCols}
    \cup {[kind |-> "missing", frame |-> "events", col |-> c] : c \in EventCols}
    \cup {[kind |-> "missing", frame |-> "passenger_volume", col |-> c] :
             c \in {"Activity Period", "Revenue Passenger Volume"}}
    \cup {[kind |-> "bad", frame |-> "ht_cases", col |-> "Incident Reporting Date"]}
    \cup {[kind |-> "bad", frame |-> "ht_crimes", col |-> c] :
             c \in {"CMPLNT_FR_DT", "CMPLNT_FR_TM"}}
    \cup {[kind |-> "bad", frame |-> "events", col |-> c] : c \in EventCols}
    \cup {[kind |-> "bad", frame |-> "passenger_volume", col |-> "Activity Period"]}

\* the frame named name of BaseFiles with the defects ds applied
Defective(name, ds) ==
    LET df == BaseFiles[name]
        gone == {d.col : d \in {x \in ds : x.kind = "missing" /\ x.frame = name}}
        bad == {d.col : d \in {x \in ds : x.kind = "bad" /\ x.frame = name}}
        Spoil(r) == [c \in df.cols \ gone |-> IF c \in bad THEN V(Garbage) ELSE r[c]]
    IN  Frame(df.cols \ gone, SeqMap(Spoil, df.rows))

DefectInputs ==
    {Files(Defective("ht_cases", ds), Defective("ht_crimes", ds),
           Defective("passenger_volume", ds), Defective("events", ds), TRUE, TRUE) :
        ds \in {x \in SUBSET Defects : Cardinality(x) <= MaxDefects}}

\* an output directory that refuses one of the two writes
DiskInputs ==
    {Files(BaseCases, BaseCrimes, BaseVolume, BaseEvents, fw, cw) : fw, cw \in BOOLEAN}

Inputs ==
    LabelInputs \cup BoroughInputs \cup EventInputs \cup VolumeInputs
    \cup CoordInputs \cup DefectInputs \cup DiskInputs

-----------------------------------------------------------------------------
(* The state machine *)

Init ==
    /\ files \in Inputs
    /\ pc = "load"
    /\ err = "none"
    /\ trace = <<>>
    /\ ht_cases = EmptyFrame
    /\ ht_crimes = EmptyFrame
    /\ passenger_volume = EmptyFrame
    /\ events = EmptyFrame
    /\ future_flags = <<>>
    /\ loop_i = 1
    /\ df_label = EmptyFrame
    /\ all_locations = EmptyFrame
    /\ date_loc_grid = EmptyFrame
    /\ feather = NULL
    /\ csv = NULL

Next ==
    \/ Load
    \/ Parse
    \/ TimeFeatures
    \/ LocationIds
    \/ LabelAppend
    \/ LabelFinish
    \/ Grid
    \/ Events71
    \/ CrimeCount72
    \/ NightRatio73
    \/ Passenger74
    \/ Borough75
    \/ Temporal76
    \/ Label77
    \/ Cleanup78
    \/ SaveFeather
    \/ SaveCsv

Spec == Init /\ [][Next]_vars

\* the kernel runs every started cell to its end
LiveSpec == Spec /\ WF_vars(Next)

-----------------------------------------------------------------------------
(* Properties *)

Done == pc = "done"

Ran(step) == step \in Range(trace)

GridRows == Range(date_loc_grid.rows)

\* an HT case is reported at the location with id cell L on day d
CaseAt(L, d) ==
    \E r \in Range(ht_cases.rows) : r["location_id"] = L /\ r["date"] = V(d)

\* C1: in the final dataset future_ht_risk_1d is 1 exactly on the rows whose
\* location has an HT case reported on the next day.
C1_NextDayLabel ==
    Done => \A r \in GridRows :
                Val(r["future_ht_risk_1d"])
                    = IF CaseAt(r["location_id"], Val(r["date"]) + 1) THEN 1 ELSE 0

\* the rows of the grid for day d and location id cell L
RowsAt(d, L) ==
    {i \in DOMAIN date_loc_grid.rows :
        /\ date_loc_grid.rows[i]["date"] = V(d)
        /\ date_loc_grid.rows[i]["location_id"] = L}

LocationIdCells == {r["location_id"] : r \in Range(all_locations.rows)}

DenseGrid ==
    /\ \A d \in Val(min_date)..Val(max_date) : \A L \in LocationIdCells :
           Cardinality(RowsAt(d, L)) = 1
    /\ \A r \in GridRows :
           /\ Val(r["date"]) \in Val(min_date)..Val(max_date)
           /\ r["location_id"] \in LocationIdCells

\* C2: from the grid step on, through every merge of 7.1 to 7.7 and to the
\* end, the dataset has exactly one row per day of the date range and
\* distinct location_id, and no other row.
C2_DenseGrid == Ran("grid") => DenseGrid

\* C3: after the final clean-up no cell of the dataset is missing.
C3_NoMissing ==
    Ran("cleanup_7_8") =>
        \A r \in GridRows : \A c \in date_loc_grid.cols : ~IsNull(r[c])

\* a saved run in which merges left cells missing that the fills then filled:
\* a location without any borough, a day without events, a month without a
\* passenger volume
C3_Witness ==
    /\ Done
    /\ \E r \in GridRows : r["borough"] = V("Unknown") /\ r["daily_event_count"] = V(0)
    /\ \E r \in Range(Val(csv).rows) : r["future_ht_risk_1d"] = V(0)

DataDictionary ==
    {"date", "location_id", "Latitude", "Longitude", "past_7d_crime_count",
     "night_crime_ratio", "daily_event_count", "monthly_passenger_volume_scaled",
     "borough", "day_of_week", "is_weekend", "season", "is_holiday",
     "future_ht_risk_1d"}

\* C4: the saved dataset has exactly the columns of the data dictionary.
C4_DictionaryColumns ==
    Done => Val(csv).cols = DataDictionary /\ Val(feather).cols = DataDictionary

\* the events that take place on day d: started by d and not ended before d
TakesPlaceOn(d) ==
    {i \in DOMAIN events.rows :
        /\ ~IsNull(events.rows[i]["date"])
        /\ ~IsNull(events.rows[i]["end_date"])
        /\ Val(events.rows[i]["date"]) <= d
        /\ d <= Val(events.rows[i]["end_date"])}

StartsOn(d) == {i \in DOMAIN events.rows : events.rows[i]["date"] = V(d)}

\* C5: daily_event_count is the number of events taking place on the row's
\* day, and 0 when there is none.
C5_EventsTakingPlace ==
    Done => \A r \in GridRows :
                Val(r["daily_event_count"]) = Cardinality(TakesPlaceOn(Val(r["date"])))

\* what cell 7.1 counts instead: the events whose start_date is the row's day
EventsStartingCounted ==
    Done => \A r \in GridRows :
                r["daily_event_count"] = V(Cardinality(StartsOn(Val(r["date"]))))

\* the boroughs the HT crime records of the input name at location id cell L
CrimeBoroughs(L) ==
    {r["BORO_NM"] : r \in {x \in Range(WithLocationId(files.ht_crimes).rows) :
                              x["location_id"] = L /\ ~IsNull(x["BORO_NM"])}}

\* the boroughs the addresses of the TAHub cases at location id cell L name
CaseBoroughs(L) ==
    {extract_borough_from_address(r["Address/Location"]) :
        r \in {x \in Range(ht_cases.rows) :
                  /\ x["location_id"] = L
                  /\ ~IsNull(extract_borough_from_address(x["Address/Location"]))}}

\* C6: every grid row's borough is a BORO_NM of an HT crime record at its
\* location_id when there is one, else a borough taken from the address of a
\* TAHub case there, else 'Unknown'; it is never missing.
C6_BoroughPrecedence ==
    Done => \A r \in GridRows :
                /\ ~IsNull(r["borough"])
                /\ IF CrimeBoroughs(r["location_id"]) # {}
                   THEN r["borough"] \in CrimeBoroughs(r["location_id"])
                   ELSE IF CaseBoroughs(r["location_id"]) # {}
                   THEN r["borough"] \in CaseBoroughs(r["location_id"])
                   ELSE r["borough"] = V("Unknown")

\* the columns every run needs, with the step that first touches each
RequiredColumns ==
    {[frame |-> "ht_cases", col |-> "Incident Reporting Date", step |-> "parse"],
     [frame |-> "ht_cases", col |-> "Latitude", step |-> "location_ids"],
     [frame |-> "ht_cases", col |-> "Longitude", step |-> "location_ids"],
     [frame |-> "ht_cases", col |-> "Address/Location", step |-> "borough_7_5"],
     [frame |-> "ht_crimes", col |-> "CMPLNT_FR_DT", step |-> "parse"],
     [frame |-> "ht_crimes", col |-> "CMPLNT_FR_TM", step |-> "time_features"],
     [frame |-> "ht_crimes", col |-> "Latitude", step |-> "location_ids"],
     [frame |-> "ht_crimes", col |-> "Longitude", step |-> "location_ids"],
     [frame |-> "ht_crimes", col |-> "BORO_NM", step |-> "borough_7_5"],
     [frame |-> "passenger_volume", col |-> "Activity Period", step |-> "parse"],
     [frame |-> "events", col |-> "start_date", step |-> "parse"],
     [frame |-> "events", col |-> "end_date", step |-> "parse"],
     [frame |-> "events", col |-> "start_time", step |-> "time_features"],
     [frame |-> "events", col |-> "end_time", step |-> "time_features"]}

DateColumns ==
    {x \in RequiredColumns : x.step = "parse"}

TimeColumns ==
    {x \in RequiredColumns : x.step = "time_features"}

\* the text of column x.col of the input file x.frame fails to parse in some row
BadText(x) ==
    /\ x.col \in files[x.frame].cols
    /\ \E r \in Range(files[x.frame].rows) : ~Parses(r[x.col])

\* the steps that first touch a missing required column of the input files
MissingColumnSteps ==
    {x.step : x \in {y \in RequiredColumns : y.col \notin files[y.frame].cols}}
    \cup (IF {"Revenue Passenger Volume", "monthly_passenger_volume"}
                \cap files.passenger_volume.cols = {}
          THEN {"passenger_7_4"} ELSE {})

BadDateSteps == {x.step : x \in {y \in DateColumns : BadText(y)}}

BadTimeSteps == {x.step : x \in {y \in TimeColumns : BadText(y)}}

FirstOf(steps) == Steps[SetMin({StepIndex(x) : x \in steps})]

\* no step in steps ever runs to its end, and an aborted run was aborted by
\* the first of them
AbortsAt(steps) ==
    /\ \A x \in steps : ~Ran(x)
    /\ pc = "error" /\ steps # {} => err = FirstOf(steps)

\* C7 as claimed: every missing required column and every date or time parse
\* failure aborts the run at the step that first touches it.
C7_EveryDefectAborts == AbortsAt(MissingColumnSteps \cup BadDateSteps \cup BadTimeSteps)

\* C7 as amended: every missing required column and every date parse failure
\* aborts the run at the step that first touches it; a time text that does
\* not parse is coerced to a missing hour and aborts nothing.
C7_ColumnsAndDatesAbort ==
    /\ AbortsAt(MissingColumnSteps \cup BadDateSteps)
    /\ MissingColumnSteps \cup BadDateSteps = {} /\ ~Ran("time_features")
           => pc # "error"

\* a run that coerced a time text that does not parse, went on, and was
\* aborted only by the step that first touches a missing column
C7_Witness ==
    /\ BadTimeSteps # {}
    /\ Ran("passenger_7_4")
    /\ pc = "error"
    /\ err = "borough_7_5"

\* the coordinate pairs of the HT cases and crimes that have both coordinates
RawPairs ==
    {<<r["Latitude"], r["Longitude"]>> :
        r \in {x \in Range(ht_cases.rows) \cup Range(ht_crimes.rows) :
                  ~IsNull(x["Latitude"]) /\ ~IsNull(x["Longitude"])}}

SameIdIffSameRounded ==
    \A p, q \in RawPairs :
        make_location_id(p[1], p[2]) = make_location_id(q[1], q[2])
            <=> PyRound(p[1]) = PyRound(q[1]) /\ PyRound(p[2]) = PyRound(q[2])

RawAndRoundedAgree ==
    \A p \in RawPairs :
        make_location_id(p[1], p[2]) = make_location_id(NpRound(p[1]), NpRound(p[2]))

GridCoordsMatchId ==
    \A r \in GridRows :
        /\ r["location_id"] = V(make_location_id(r["Latitude"], r["Longitude"]))
        /\ PyRound(r["Latitude"]) = r["Latitude"]
        /\ PyRound(r["Longitude"]) = r["Longitude"]

\* C8: two coordinate pairs get the same location_id exactly when they agree
\* after rounding to 5 decimals; the id of raw coordinates is the id of the
\* coordinates the grid has rounded; a grid row's coordinates are the rounded
\* values its id is made of.
C8_LocationIdRoundTrip ==
    Ran("grid") => SameIdIffSameRounded /\ RawAndRoundedAgree /\ GridCoordsMatchId

\* the day with ordinal d is a Monday, a Saturday, a Sunday (2021-02-01 was
\* a Monday)
IsMonday(d) == (d - 18659) % 7 = 0

IsSaturday(d) == (d - 18659) % 7 = 5

IsSunday(d) == (d - 18659) % 7 = 6

\* C9: day_of_week is in 0..6 with 0 on Mondays, and is_weekend is 1 exactly
\* on Saturdays and Sundays, which are the days with day_of_week 5 and 6.
C9_Weekend ==
    Ran("temporal_7_6") =>
        \A r \in GridRows :
            /\ Val(r["day_of_week"]) \in 0..6
            /\ Val(r["day_of_week"]) = 0 <=> IsMonday(Val(r["date"]))
            /\ Val(r["day_of_week"]) = 5 <=> IsSaturday(Val(r["date"]))
            /\ Val(r["day_of_week"]) = 6 <=> IsSunday(Val(r["date"]))
            /\ Val(r["is_weekend"]) \in {0, 1}
            /\ Val(r["is_weekend"]) = 1
                   <=> IsSaturday(Val(r["date"])) \/ IsSunday(Val(r["date"]))
            /\ Val(r["is_weekend"]) = 1 <=> Val(r["day_of_week"]) \in {5, 6}

\* a saved dataset with a Saturday row, a Sunday row and a Monday row
C9_Witness ==
    /\ Done
    /\ \E r \in GridRows : IsSaturday(Val(r["date"])) /\ r["is_weekend"] = V(1)
    /\ \E r \in GridRows : IsSunday(Val(r["date"])) /\ r["is_weekend"] = V(1)
    /\ \E r \in GridRows : IsMonday(Val(r["date"])) /\ r["is_weekend"] = V(0)

\* the steps that ran are the first steps of the notebook, each once and in
\* order; the step in hand is the next one; a saved run ran them all
InOrder ==
    /\ Len(trace) <= Len(Steps)
    /\ \A i \in DOMAIN trace : trace[i] = Steps[i]
    /\ pc = "done" => trace = Steps
    /\ pc = "error" => Len(trace) < Len(Steps) /\ err = Steps[Len(trace) + 1]
    /\ pc \notin {"done", "error"} =>
           Len(trace) < Len(Steps) /\ pc = Steps[Len(trace) + 1]
    /\ loop_i <= Len(ht_cases.rows) + 1
    /\ Len(future_flags) = loop_i - 1

\* C10: the steps run once each in the notebook's order, none is re-entered,
\* and every run ends, saved or in an error, after finitely many steps.
C10_SinglePass ==
    /\ []InOrder
    /\ [][(pc \in {"done", "error"}) => (pc' = pc)]_vars
    /\ <>(pc \in {"done", "error"})

\* a saved run whose label loop went round more than once
C10_Witness == Done /\ loop_i > 2 /\ trace = Steps /\ ~IsNull(csv)

\* the steps before the save
BeforeSave == {Steps[i] : i \in 1..(StepIndex("save_feather") - 1)}

\* C11: an output is written only once every step before the save has run
\* to its end, so a run that an earlier step aborted has written neither
\* file; the CSV is written only after the feather file, both hold the
\* dataset as the clean-up left it, and a run aborted by the CSV write has
\* the feather file written and no CSV.
C11_SaveOrder ==
    /\ ~IsNull(feather) => (\A x \in BeforeSave : Ran(x)) /\ Ran("save_feather")
    /\ ~IsNull(csv) => ~IsNull(feather) /\ Ran("save_csv")
    /\ pc = "error" /\ err \in BeforeSave \cup {"save_feather"}
           => IsNull(feather) /\ IsNull(csv)
    /\ Ran("save_feather") => feather = V(date_loc_grid)
    /\ Ran("save_csv") => csv = feather
    /\ pc = "error" /\ err = "save_csv" => ~IsNull(feather) /\ IsNull(csv)
    /\ Done => ~IsNull(feather) /\ ~IsNull(csv)

\* a run the CSV write aborted, with the feather file already written
C11_Witness ==
    /\ pc = "error"
    /\ err = "save_csv"
    /\ ~IsNull(feather)
    /\ Val(feather).rows # <<>>
    /\ IsNull(csv)

====
